---- MODULE Spec2Model ----
(***************************************************************************)
(* OrderPointAnalyzer of crypto_analyzer.py as a state machine.            *)
(*                                                                         *)
(* The analyzer object holds one candle table, self.data, to which the     *)
(* calculate_* methods append derived columns; every other method reads    *)
(* that table.  Sequences are 1-based here: pandas' iloc[j] is index j+1,  *)
(* iloc[-1] is index n, iloc[-2] is n-1 and iloc[-20] is n-19.             *)
(*                                                                         *)
(* Floating point numbers are modelled by exact rationals plus the two     *)
(* special values the code can produce, NaN and +inf.  Prices are integers *)
(* (for calculate_entry_points: integer multiples of 0.01).                *)
(***************************************************************************)
EXTENDS Integers, Sequences, FiniteSets, TLC

VARIABLES
    data,      \* self.data: the candle table with its derived columns
    exchange,  \* self.exchange: what its fetch_ohlcv does when called
    fetched,   \* whether the last exchange.fetch_ohlcv call succeeded
    ret        \* what the last method call returned or raised

vars == <<data, exchange, fetched, ret>>

-----------------------------------------------------------------------------
(* Bounds of the model                                                     *)

MaxPrice == 5      \* closes of the signal feed range over 1..MaxPrice
MaxLevel == 4      \* lows of the level feed range over 1..MaxLevel
MaxLen == 6        \* longest series of the level feed
MaxWindow == 2     \* largest window passed to find_support_resistance
MaxVolume == 2     \* volumes of the analyze feed range over 1..MaxVolume

-----------------------------------------------------------------------------------------------------------------------------------------------------
(* Floating point values: NaN, +inf, or a rational num/den with den > 0.   *)
(* Arithmetic is exact; a fraction is reduced only when it is an integer.  *)

Abs(x) == IF x < 0 THEN -x ELSE x

RECURSIVE Gcd(_, _)
Gcd(a, b) == IF b = 0 THEN a ELSE Gcd(b, a % b)

\* the least common multiple of two denominators
CommonDen(a, b) ==
    IF a % b = 0 THEN a ELSE IF b % a = 0 THEN b ELSE (a \div Gcd(a, b)) * b

NaN == [k |-> "nan", num |-> 0, den |-> 1]
Inf == [k |-> "inf", num |-> 1, den |-> 1]

Rat(n, d) ==
    IF n % d = 0
    THEN [k |-> "num", num |-> n \div d, den |-> 1]
    ELSE [k |-> "num", num |-> n, den |-> d]

Flt(x) == [k |-> "num", num |-> x, den |-> 1]

IsNaN(x) == x.k = "nan"
IsNum(x) == x.k = "num"

\* the numerator of x over the denominator l, a multiple of x.den
Over(x, l) == x.num * (l \div x.den)

\* x + y
FAdd(x, y) ==
    IF IsNaN(x) \/ IsNaN(y) THEN NaN
    ELSE IF x.k = "inf" \/ y.k = "inf" THEN Inf
    ELSE Rat(Over(x, CommonDen(x.den, y.den)) + Over(y, CommonDen(x.den, y.den)),
             CommonDen(x.den, y.den))

\* x - y (y finite or NaN)
FSub(x, y) ==
    IF IsNaN(x) \/ IsNaN(y) THEN NaN
    ELSE IF x.k = "inf" THEN Inf
    ELSE Rat(Over(x, CommonDen(x.den, y.den)) - Over(y, CommonDen(x.den, y.den)),
             CommonDen(x.den, y.den))

\* x / y for x >= 0, y >= 0: IEEE division, 0/0 = NaN, x/0 = inf, x/inf = 0
FDiv(x, y) ==
    IF IsNaN(x) \/ IsNaN(y) THEN NaN
    ELSE IF x.k = "inf" THEN (IF y.k = "inf" THEN NaN ELSE Inf)
    ELSE IF y.k = "inf" THEN Flt(0)
    ELSE IF y.num = 0 THEN (IF x.num = 0 THEN NaN ELSE Inf)
    ELSE Rat(x.num * y.den, x.den * y.num)

\* x * a / b for integers a >= 0, b > 0
FScale(x, a, b) ==
    IF IsNaN(x) THEN NaN
    ELSE IF x.k = "inf" THEN Inf
    ELSE Rat(x.num * (a \div Gcd(a, b)), x.den * (b \div Gcd(a, b)))

\* comparisons: every comparison with NaN is false
FLt(x, y) ==
    /\ ~IsNaN(x)
    /\ ~IsNaN(y)
    /\ x.k # "inf"
    /\ \/ y.k = "inf"
       \/ Over(x, CommonDen(x.den, y.den)) < Over(y, CommonDen(x.den, y.den))

FGt(x, y) == FLt(y, x)

FLe(x, y) ==
    /\ ~IsNaN(x)
    /\ ~IsNaN(y)
    /\ \/ y.k = "inf"
       \/ /\ x.k # "inf"
          /\ Over(x, CommonDen(x.den, y.den)) <= Over(y, CommonDen(x.den, y.den))

FGe(x, y) == FLe(y, x)

FEq(x, y) == FLe(x, y) /\ FLe(y, x)

-----
(* The candle table                                                        *)

\* self.data = None
NoData ==
    [loaded |-> FALSE, n |-> 0,
     high |-> <<>>, low |-> <<>>, close |-> <<>>, volume |-> <<>>,
     columns |-> {},
     rsi |-> <<>>, macd |-> <<>>, macd_signal |-> <<>>,
     bb_upper |-> <<>>, bb_middle |-> <<>>, bb_lower |-> <<>>]

\* pd.DataFrame(ohlcv, columns=[...]): the raw columns of the rows returned
DataFrame(rows) ==
    [loaded |-> TRUE, n |-> Len(rows),
     high |-> [i \in 1..Len(rows) |-> rows[i].high],
     low |-> [i \in 1..Len(rows) |-> rows[i].low],
     close |-> [i \in 1..Len(rows) |-> rows[i].close],
     volume |-> [i \in 1..Len(rows) |-> rows[i].volume],
     columns |-> {"high", "low", "close", "volume"},
     rsi |-> <<>>, macd |-> <<>>, macd_signal |-> <<>>,
     bb_upper |-> <<>>, bb_middle |-> <<>>, bb_lower |-> <<>>]

\* The last call: the method, its arguments, and how it ended: "return" with
\* the value returned, "none" for a return of None, "raise" with the exception
NoCall == [op |-> "none", args |-> <<>>, kind |-> "none", val |-> "none"]
Return(op, args, v) == [op |-> op, args |-> args, kind |-> "return", val |-> v]
ReturnNone(op, args) == [op |-> op, args |-> args, kind |-> "none", val |-> "None"]
Raise(op, args, e) == [op |-> op, args |-> args, kind |-> "raise", val |-> e]

\* what exchange.fetch_ohlcv may do: raise, or return rows
FetchFailure == [ok |-> FALSE, rows |-> <<>>]
FetchOutcomes(feed) == {[ok |-> TRUE, rows |-> s] : s \in feed} \cup {FetchFailure}

\* fetch_ohlcv's effect on self.data: the except branch leaves it as it was
FetchData(d, outcome) == IF outcome.ok THEN DataFrame(outcome.rows) ELSE d

-----------------------------------------------------------------------------
(* calculate_rsi                                                           *)

\* delta = close.diff(): NaN at the first row
Delta(close) ==
    [i \in 1..Len(close) |-> IF i = 1 THEN NaN ELSE Flt(close[i] - close[i - 1])]

\* delta.where(delta > 0, 0): NaN > 0 is false, so the first row becomes 0
GainTerms(delta) ==
    [i \in 1..Len(delta) |-> IF FGt(delta[i], Flt(0)) THEN delta[i] ELSE Flt(0)]

\* -delta.where(delta < 0, 0)
LossTerms(delta) ==
    [i \in 1..Len(delta) |->
        IF FLt(delta[i], Flt(0)) THEN FSub(Flt(0), delta[i]) ELSE Flt(0)]

RECURSIVE SumRange(_, _, _)
SumRange(xs, lo, hi) ==
    IF lo > hi THEN Flt(0) ELSE FAdd(xs[hi], SumRange(xs, lo, hi - 1))

\* xs.rolling(window=period).mean() at row i: NaN until the window is full
RollingMean(xs, period, i) ==
    IF i < period THEN NaN ELSE FScale(SumRange(xs, i - period + 1, i), 1, period)

\* rs = gain / loss; rsi = 100 - (100 / (1 + rs))
RsiFormula(gain, loss) ==
    LET rs == FDiv(gain, loss)
    IN  FSub(Flt(100), FDiv(Flt(100), FAdd(Flt(1), rs)))

RsiColumn(close, period) ==
    LET delta == Delta(close)
        gains == GainTerms(delta)
        losses == LossTerms(delta)
    IN  [i \in 1..Len(close) |->
            RsiFormula(RollingMean(gains, period, i), RollingMean(losses, period, i))]

WithRsi(d, period) ==
    [d EXCEPT !.rsi = RsiColumn(d.close, period),
              !.columns = @ \cup {"rsi"}]

-----------------------------------------------------------------------------
(* calculate_macd                                                          *)

\* One step of xs.ewm(span=span, adjust=False).mean():
\* y[i] = (1 - a) * y[i-1] + a * x[i] with a = 2 / (span + 1)
EwmStep(prev, x, span) ==
    FAdd(FScale(prev, span - 1, span + 1), FScale(x, 2, span + 1))

\* The rows of exp1, exp2, macd and signal_line, built oldest first; an
\* exponential average starts at the first value of its series (y[0] = x[0])
RECURSIVE MacdRows(_, _, _, _, _)
MacdRows(close, fast, slow, signal, acc) ==
    IF Len(acc) = Len(close) THEN acc
    ELSE LET i == Len(acc) + 1
             x == Flt(close[i])
             row == IF i = 1
                    THEN [exp1 |-> x, exp2 |-> x,
                          macd |-> FSub(x, x), signal_line |-> FSub(x, x)]
                    ELSE LET p == acc[i - 1]
                             e1 == EwmStep(p.exp1, x, fast)
                             e2 == EwmStep(p.exp2, x, slow)
                         IN  [exp1 |-> e1, exp2 |-> e2,
                              macd |-> FSub(e1, e2),
                              signal_line |-> EwmStep(p.signal_line, FSub(e1, e2), signal)]
         IN  MacdRows(close, fast, slow, signal, Append(acc, row))

WithMacd(d, fast, slow, signal) ==
    LET rows == MacdRows(d.close, fast, slow, signal, <<>>)
    IN  [d EXCEPT !.macd = [i \in 1..d.n |-> rows[i].macd],
                  !.macd_signal = [i \in 1..d.n |-> rows[i].signal_line],
                  !.columns = @ \cup {"macd", "macd_signal", "macd_histogram"}]

-----------------------------------------------------------------------------
(* calculate_bollinger_bands                                               *)

\* A band value mid + mult * sqrt(var): the standard deviation is kept as the
\* square root of its (rational) variance, so that comparisons stay exact.
NaNBand == [k |-> "nan", mid |-> Flt(0), var |-> Flt(0), mult |-> 0]
Band(mid, var, mult) == [k |-> "num", mid |-> mid, var |-> var, mult |-> mult]

Square(x) == Rat(x.num * x.num, x.den * x.den)

\* x < band and x > band for a number x; false when the band is NaN
LtBand(x, b) ==
    /\ b.k = "num"
    /\ LET e == FSub(x, b.mid)
           t2v == FScale(b.var, b.mult * b.mult, 1)
       IN  IF b.mult >= 0
           THEN FLt(e, Flt(0)) \/ FLt(Square(e), t2v)
           ELSE FLt(e, Flt(0)) /\ FGt(Square(e), t2v)

GtBand(x, b) ==
    /\ b.k = "num"
    /\ LET e == FSub(x, b.mid)
           t2v == FScale(b.var, b.mult * b.mult, 1)
       IN  IF b.mult >= 0
           THEN FGt(e, Flt(0)) /\ FGt(Square(e), t2v)
           ELSE FGt(e, Flt(0)) \/ FLt(Square(e), t2v)

RECURSIVE SumSquares(_, _, _)
SumSquares(xs, lo, hi) ==
    IF lo > hi THEN 0 ELSE xs[hi] * xs[hi] + SumSquares(xs, lo, hi - 1)

RECURSIVE SumInts(_, _, _)
SumInts(xs, lo, hi) ==
    IF lo > hi THEN 0 ELSE xs[hi] + SumInts(xs, lo, hi - 1)

\* close.rolling(window=period).mean() at row i
RollingSma(close, period, i) ==
    IF i < period THEN NaN ELSE Rat(SumInts(close, i - period + 1, i), period)

\* the square of close.rolling(window=period).std() at row i (sample
\* variance, ddof = 1): NaN until the window is full and for a window of one
RollingVar(close, period, i) ==
    IF i < period \/ period < 2 THEN NaN
    ELSE LET s == SumInts(close, i - period + 1, i)
             q == SumSquares(close, i - period + 1, i)
         IN  Rat(period * q - s * s, period * (period - 1))

BandAt(close, period, mult, i) ==
    LET sma == RollingSma(close, period, i)
        var == RollingVar(close, period, i)
    IN  IF IsNaN(sma) \/ IsNaN(var) THEN NaNBand ELSE Band(sma, var, mult)

WithBollinger(d, period, std_dev) ==
    [d EXCEPT !.bb_upper = [i \in 1..d.n |-> BandAt(d.close, period, std_dev, i)],
              !.bb_middle = [i \in 1..d.n |-> RollingSma(d.close, period, i)],
              !.bb_lower = [i \in 1..d.n |-> BandAt(d.close, period, -std_dev, i)],
              !.columns = @ \cup {"bb_upper", "bb_middle", "bb_lower"}]

-----------------------------------------------------------------------------
(* detect_divergence                                                       *)

\* The value detect_divergence returns, or the exception it raises:
\* close.iloc[-20] and rsi.iloc[-20] are out of bounds for fewer than 20 rows
Divergence(d) ==
    IF ~d.loaded \/ "rsi" \notin d.columns
    THEN [kind |-> "None", bullish |-> FALSE, bearish |-> FALSE]
    ELSE IF d.n < 20
    THEN [kind |-> "IndexError", bullish |-> FALSE, bearish |-> FALSE]
    ELSE LET price_lower == d.close[d.n] < d.close[d.n - 19]
             rsi_higher == FGt(d.rsi[d.n], d.rsi[d.n - 19])
             price_higher == d.close[d.n] > d.close[d.n - 19]
             rsi_lower == FLt(d.rsi[d.n], d.rsi[d.n - 19])
         IN  [kind |-> "dict",
              bullish |-> price_lower /\ rsi_higher,
              bearish |-> price_higher /\ rsi_lower]

-----------------------------------------------------------------------------
(* generate_signal                                                         *)

NoRule == [sig |-> <<>>, pts |-> 0]

RsiRule(current_rsi) ==
    IF FLt(current_rsi, Flt(30)) THEN [sig |-> <<"RSI oversold">>, pts |-> 20]
    ELSE IF FGt(current_rsi, Flt(70)) THEN [sig |-> <<"RSI overbought">>, pts |-> -20]
    ELSE NoRule

MacdRuleStrict(macd1, signal1, macd2, signal2) ==
    IF FGt(macd1, signal1)
    THEN (IF FLt(macd2, signal2)
          THEN [sig |-> <<"MACD bullish crossover">>, pts |-> 25]
          ELSE NoRule)
    ELSE IF FLt(macd1, signal1)
    THEN (IF FGt(macd2, signal2)
          THEN [sig |-> <<"MACD bearish crossover">>, pts |-> -25]
          ELSE NoRule)
    ELSE NoRule

\* macd1, signal1 are the columns at iloc[-1]; macd2, signal2 at iloc[-2]
MacdRule(macd1, signal1, macd2, signal2) ==
    IF FGt(macd1, signal1)
    THEN (IF FLe(macd2, signal2)
          THEN [sig |-> <<"MACD bullish crossover">>, pts |-> 25]
          ELSE NoRule)
    ELSE IF FLt(macd1, signal1)
    THEN (IF FGe(macd2, signal2)
          THEN [sig |-> <<"MACD bearish crossover">>, pts |-> -25]
          ELSE NoRule)
    ELSE NoRule

BollingerRule(current_price, bb_lower, bb_upper) ==
    IF LtBand(current_price, bb_lower)
    THEN [sig |-> <<"Price below lower Bollinger Band">>, pts |-> 15]
    ELSE IF GtBand(current_price, bb_upper)
    THEN [sig |-> <<"Price above upper Bollinger Band">>, pts |-> -15]
    ELSE NoRule

DivergenceRule(divergence) ==
    IF divergence.kind = "dict" /\ divergence.bullish
    THEN [sig |-> <<"Bullish divergence detected">>, pts |-> 20]
    ELSE IF divergence.kind = "dict" /\ divergence.bearish
    THEN [sig |-> <<"Bearish divergence detected">>, pts |-> -20]
    ELSE NoRule

ClassifyInclusive(confidence) ==
    IF confidence >= 40 THEN "STRONG BUY"
    ELSE IF confidence >= 20 THEN "BUY"
    ELSE IF confidence <= -40 THEN "STRONG SELL"
    ELSE IF confidence <= -20 THEN "SELL"
    ELSE "HOLD"

Classify(confidence) ==
    IF confidence > 40 THEN "STRONG BUY"
    ELSE IF confidence > 20 THEN "BUY"
    ELSE IF confidence < -40 THEN "STRONG SELL"
    ELSE IF confidence < -20 THEN "SELL"
    ELSE "HOLD"

SignalDictSigned(r1, r2, r3, r4) ==
    LET confidence == r1.pts + r2.pts + r3.pts + r4.pts
    IN  [action |-> Classify(confidence),
         confidence |-> confidence,
         signals |-> r1.sig \o r2.sig \o r3.sig \o r4.sig,
         score |-> confidence]

\* The dict generate_signal returns.  score is the local variable confidence
\* as it stands before abs() is applied; the code returns only its magnitude.
SignalDict(r1, r2, r3, r4) ==
    LET confidence == r1.pts + r2.pts + r3.pts + r4.pts
    IN  [action |-> Classify(confidence),
         confidence |-> Abs(confidence),
         signals |-> r1.sig \o r2.sig \o r3.sig \o r4.sig,
         score |-> confidence]

\* the rows iloc[-2] of macd and macd_signal are read only inside the branches
MacdRuleOf(d) ==
    IF d.n >= 2
    THEN MacdRule(d.macd[d.n], d.macd_signal[d.n], d.macd[d.n - 1], d.macd_signal[d.n - 1])
    ELSE NoRule

\* What generate_signal returns or raises on table d
Signal(d) ==
    IF ~d.loaded THEN ReturnNone("generate_signal", <<>>)
    ELSE IF "rsi" \notin d.columns THEN Raise("generate_signal", <<>>, "KeyError")
    ELSE IF d.n = 0 THEN Raise("generate_signal", <<>>, "IndexError")
    ELSE IF "macd" \notin d.columns THEN Raise("generate_signal", <<>>, "KeyError")
    ELSE IF d.n < 2 /\ (FGt(d.macd[d.n], d.macd_signal[d.n])
                        \/ FLt(d.macd[d.n], d.macd_signal[d.n]))
    THEN Raise("generate_signal", <<>>, "IndexError")
    ELSE IF "bb_lower" \notin d.columns THEN Raise("generate_signal", <<>>, "KeyError")
    ELSE IF Divergence(d).kind = "IndexError"
    THEN Raise("generate_signal", <<>>, "IndexError")
    ELSE Return("generate_signal", <<>>,
                SignalDict(RsiRule(d.rsi[d.n]),
                           MacdRuleOf(d),
                           BollingerRule(Flt(d.close[d.n]), d.bb_lower[d.n], d.bb_upper[d.n]),
                           DivergenceRule(Divergence(d))))

-----------------------------------------------------------------------------------------------------------------------------------------------------
(* find_support_resistance                                                 *)

RECURSIVE SliceMin(_, _, _)
SliceMin(xs, lo, hi) ==
    IF lo = hi THEN xs[lo]
    ELSE LET m == SliceMin(xs, lo, hi - 1) IN IF xs[hi] < m THEN xs[hi] ELSE m

RECURSIVE SliceMax(_, _, _)
SliceMax(xs, lo, hi) ==
    IF lo = hi THEN xs[lo]
    ELSE LET m == SliceMax(xs, lo, hi - 1) IN IF xs[hi] > m THEN xs[hi] ELSE m

\* the loop over range(window, len - window): row i of pandas is i + 1 here,
\* and the slice iloc[i-window:i+window] is the rows j-window .. j+window-1
RECURSIVE SupportScan(_, _, _, _)
SupportScan(low, window, j, acc) ==
    IF j > Len(low) - window THEN acc
    ELSE SupportScan(low, window, j + 1,
                     IF low[j] = SliceMin(low, j - window, j + window - 1)
                     THEN Append(acc, low[j]) ELSE acc)

RECURSIVE ResistanceScan(_, _, _, _)
ResistanceScan(high, window, j, acc) ==
    IF j > Len(high) - window THEN acc
    ELSE ResistanceScan(high, window, j + 1,
                        IF high[j] = SliceMax(high, j - window, j + window - 1)
                        THEN Append(acc, high[j]) ELSE acc)

\* set(levels)
ToSet(levels) == {levels[i] : i \in 1..Len(levels)}

\* sorted(values)
RECURSIVE Sorted(_)
Sorted(values) ==
    IF values = {} THEN <<>>
    ELSE LET m == CHOOSE x \in values : \A y \in values : x <= y
         IN  <<m>> \o Sorted(values \ {m})

\* sorted(values, reverse=True)
RECURSIVE SortedReverse(_)
SortedReverse(values) ==
    IF values = {} THEN <<>>
    ELSE LET m == CHOOSE x \in values : \A y \in values : x >= y
         IN  <<m>> \o SortedReverse(values \ {m})

\* xs[:3]
FirstThree(xs) == IF Len(xs) <= 3 THEN xs ELSE SubSeq(xs, 1, 3)

SupportMissingReverse(support_levels) == FirstThree(Sorted(ToSet(support_levels)))

SupportOf(support_levels) == FirstThree(SortedReverse(ToSet(support_levels)))

ResistanceOf(resistance_levels) == FirstThree(Sorted(ToSet(resistance_levels)))

Levels(d, window) ==
    [support |-> SupportOf(SupportScan(d.low, window, window + 1, <<>>)),
     resistance |-> ResistanceOf(ResistanceScan(d.high, window, window + 1, <<>>))]

-----------------------------------------------------------------------------
(* calculate_entry_points; prices are integer multiples of 0.01            *)

\* round(x, 2) of a number of hundredths: the nearest integer, a tie going to
\* the even one; NaN stays NaN
Round2(x) ==
    IF ~IsNum(x) THEN x
    ELSE LET q == x.num \div x.den
             r == x.num - q * x.den
         IN  IF 2 * r < x.den THEN Flt(q)
             ELSE IF 2 * r > x.den THEN Flt(q + 1)
             ELSE IF q % 2 = 0 THEN Flt(q) ELSE Flt(q + 1)

\* xs.rolling(14).mean().iloc[-1] of an integer column
LastMean14(xs) ==
    IF Len(xs) < 14 THEN NaN ELSE Rat(SumInts(xs, Len(xs) - 13, Len(xs)), 14)

StopLossTooTight(current_price, current_atr) == FSub(current_price, current_atr)

\* stop_loss = current_price - (current_atr * 2)
StopLoss(current_price, current_atr) == FSub(current_price, FScale(current_atr, 2, 1))

EntryPoints(d) ==
    LET current_price == Flt(d.close[d.n])
        current_atr == FSub(LastMean14(d.high), LastMean14(d.low))
        entry_low == FSub(current_price, FScale(current_atr, 1, 2))
        entry_high == FAdd(current_price, FScale(current_atr, 1, 2))
        stop_loss == StopLoss(current_price, current_atr)
        risk == FSub(current_price, stop_loss)
        take_profit_1 == FAdd(current_price, FScale(risk, 2, 1))
        take_profit_2 == FAdd(current_price, FScale(risk, 3, 1))
    IN  [current_price |-> Round2(current_price),
         entry_low |-> Round2(entry_low),
         entry_high |-> Round2(entry_high),
         stop_loss |-> Round2(stop_loss),
         take_profit_1 |-> Round2(take_profit_1),
         take_profit_2 |-> Round2(take_profit_2),
         risk_reward_ratio |-> 3]

-----------------------------------------------------------------------------
(* calculate_volume_profile                                                *)

VolumeProfile(d) ==
    LET avg_volume == IF d.n = 0 THEN NaN ELSE Rat(SumInts(d.volume, 1, d.n), d.n)
        current_volume == Flt(d.volume[d.n])
        volume_ratio == FDiv(current_volume, avg_volume)
    IN  [average |-> avg_volume,
         current |-> current_volume,
         ratio |-> volume_ratio,
         high_volume |-> FGt(volume_ratio, Rat(3, 2))]

-----------------------------------------------------------------------------
(* analyze                                                                 *)

\* self.data after fetch_ohlcv() and the three calculate_*() calls with their
\* default arguments; each of them leaves a missing table alone
Enriched(d, outcome) ==
    LET fresh == FetchData(d, outcome)
    IN  IF fresh.loaded
        THEN WithBollinger(WithMacd(WithRsi(fresh, 14), 12, 26, 9), 20, 2)
        ELSE fresh

\* What analyze returns or raises on the enriched table d.  With no table
\* every method returns None and signal['action'] raises TypeError.
Analysis(d) ==
    IF ~d.loaded THEN Raise("analyze", <<>>, "TypeError")
    ELSE IF Signal(d).kind = "raise" THEN Raise("analyze", <<>>, Signal(d).val)
    ELSE Return("analyze", <<>>,
                [signal |-> Signal(d).val,
                 entry_points |-> EntryPoints(d),
                 support_resistance |-> Levels(d, 20),
                 volume |-> VolumeProfile(d)])

-----
(* The feed of the signal specification: what the exchange may return      *)

Doji(c) == [high |-> c, low |-> c, close |-> c, volume |-> 1]

Prices == 1..MaxPrice

\* the price of the flat stretch, in the middle of the price range
BasePrice == (MaxPrice + 1) \div 2

NearBase == {BasePrice - 1, BasePrice, BasePrice + 1}

\* n candles at BasePrice, but for the first and the last two
Candles(n, head, t1, t2) ==
    [i \in 1..n |-> Doji(IF i = 1 THEN head
                         ELSE IF i = n THEN t2
                         ELSE IF i = n - 1 THEN t1
                         ELSE BasePrice)]

SignalLens == {19, 20, 21}

SignalFeed ==
    {Candles(n, h, t1, t2) :
        n \in SignalLens, h \in NearBase, t1 \in NearBase, t2 \in Prices}

SignalRsiPeriods == {2}
MacdSpans == {<<3, 1, 3>>, <<1, 3, 3>>}
BollingerArgs == {<<3, 1>>, <<20, 2>>}

(* The feed of the RSI specification                                       *)

RsiLens == {2, 3, 4, 15, 16}

RsiFeed ==
    {Candles(n, h, t1, t2) :
        n \in RsiLens, h \in NearBase, t1 \in NearBase, t2 \in Prices}

AllRsiPeriods == {2, 3, 14}

(* The feed of the level specification: every series of n <= MaxLen lows   *)
(* in 1..MaxLevel, the highs being the lows in reverse order, MaxLevel up  *)

LevelCandles(lows) ==
    [i \in 1..Len(lows) |->
        [high |-> lows[Len(lows) + 1 - i] + MaxLevel, low |-> lows[i],
         close |-> lows[i], volume |-> 1]]

LevelFeed(n) == {LevelCandles(lows) : lows \in [1..n -> 1..MaxLevel]}

Windows == 1..MaxWindow

(* The feed of the entry specification, in hundredths: candles that close  *)
(* at their low, spread below their high                                   *)

Spreads == {1000, 1001, 1003}
EntryCloses == {10000, 10003}
EntryLens == {0, 13, 14, 15}

Ranged(c, spread) == [high |-> c + spread, low |-> c, close |-> c, volume |-> 1]

EntryCandles(n, s0, last2, last1) ==
    [i \in 1..n |-> IF i = n THEN last1
                    ELSE IF i = n - 1 THEN last2
                    ELSE Ranged(10000, s0)]

EntryFeed ==
    LET Last == {Ranged(c, sp) : c \in EntryCloses, sp \in Spreads}
    IN  {EntryCandles(n, s0, l2, l1) :
            n \in EntryLens, s0 \in Spreads, l2 \in Last, l1 \in Last}

(* The feed of the analyze specification: flat but for the last two candles *)

Traded(c, v) == [high |-> c + 1, low |-> c - 1, close |-> c, volume |-> v]

AnalyzeCandles(n, t1, t2, v) ==
    [i \in 1..n |-> IF i = n THEN Traded(t2, v)
                    ELSE IF i = n - 1 THEN Traded(t1, 1)
                    ELSE Traded(BasePrice, 1)]

AnalyzeFeed ==
    {AnalyzeCandles(n, t1, t2, v) :
        n \in SignalLens, t1 \in NearBase, t2 \in Prices, v \in 1..MaxVolume}

-----------------------------------------------------------------------------
(* The methods of the analyzer as actions                                  *)

\* The analyzer as constructed, on an exchange serving one of the feed's series
\* or refusing the request
InitOn(feed) ==
    /\ data = NoData
    /\ exchange \in FetchOutcomes(feed)
    /\ fetched = FALSE
    /\ ret = NoCall

\* The value a method returns when it returns the columns it has just set
Columns(d, op, args) ==
    IF d.loaded THEN Return(op, args, "columns") ELSE ReturnNone(op, args)

FetchOhlcv ==
    /\ data' = FetchData(data, exchange)
    /\ fetched' = exchange.ok
    /\ ret' = IF exchange.ok
              THEN Return("fetch_ohlcv", <<>>, "df")
              ELSE ReturnNone("fetch_ohlcv", <<>>)
    /\ UNCHANGED exchange

CalculateRsiWith(periods) ==
    \E period \in periods :
        /\ data' = IF data.loaded THEN WithRsi(data, period) ELSE data
        /\ ret' = Columns(data, "calculate_rsi", <<period>>)
        /\ UNCHANGED <<exchange, fetched>>

CalculateRsi == CalculateRsiWith(SignalRsiPeriods)

CalculateMacd ==
    \E spans \in MacdSpans :
        /\ data' = IF data.loaded
                   THEN WithMacd(data, spans[1], spans[2], spans[3])
                   ELSE data
        /\ ret' = Columns(data, "calculate_macd", spans)
        /\ UNCHANGED <<exchange, fetched>>

CalculateBollingerBands ==
    \E args \in BollingerArgs :
        /\ data' = IF data.loaded THEN WithBollinger(data, args[1], args[2]) ELSE data
        /\ ret' = Columns(data, "calculate_bollinger_bands", args)
        /\ UNCHANGED <<exchange, fetched>>

DetectDivergence ==
    /\ ret' = LET v == Divergence(data)
              IN  IF v.kind = "IndexError"
                  THEN Raise("detect_divergence", <<>>, "IndexError")
                  ELSE IF v.kind = "None"
                  THEN ReturnNone("detect_divergence", <<>>)
                  ELSE Return("detect_divergence", <<>>, v)
    /\ UNCHANGED <<data, exchange, fetched>>

GenerateSignal ==
    /\ ret' = Signal(data)
    /\ UNCHANGED <<data, exchange, fetched>>

FindSupportResistance ==
    \E window \in Windows :
        /\ ret' = IF data.loaded
                  THEN Return("find_support_resistance", <<window>>, Levels(data, window))
                  ELSE ReturnNone("find_support_resistance", <<window>>)
        /\ UNCHANGED <<data, exchange, fetched>>

\* close.iloc[-1] raises IndexError on an empty table
CalculateEntryPoints ==
    /\ ret' = IF ~data.loaded THEN ReturnNone("calculate_entry_points", <<>>)
              ELSE IF data.n = 0 THEN Raise("calculate_entry_points", <<>>, "IndexError")
              ELSE Return("calculate_entry_points", <<>>, EntryPoints(data))
    /\ UNCHANGED <<data, exchange, fetched>>

Analyze ==
    /\ data' = Enriched(data, exchange)
    /\ fetched' = exchange.ok
    /\ ret' = Analysis(Enriched(data, exchange))
    /\ UNCHANGED exchange

\* The environment: the exchange goes down, or comes back
ExchangeOutage ==
    /\ exchange' = [exchange EXCEPT !.ok = ~@]
    /\ UNCHANGED <<data, fetched, ret>>

-----------------------------------------------------------------------------
(* Specifications                                                          *)

\* the signal pipeline, method by method
Init == InitOn(SignalFeed)

Next ==
    \/ FetchOhlcv
    \/ CalculateRsi
    \/ CalculateMacd
    \/ CalculateBollingerBands
    \/ DetectDivergence
    \/ GenerateSignal

Spec == Init /\ [][Next]_vars

\* calculate_rsi over short and long series
InitRsi == InitOn(RsiFeed)

CalculateAnyRsi == CalculateRsiWith(AllRsiPeriods)

NextRsi ==
    \/ FetchOhlcv
    \/ CalculateAnyRsi

SpecRsi == InitRsi /\ [][NextRsi]_vars

\* find_support_resistance
InitLevels == \E n \in 0..MaxLen : InitOn(LevelFeed(n))

NextLevels ==
    \/ FetchOhlcv
    \/ FindSupportResistance

SpecLevels == InitLevels /\ [][NextLevels]_vars

\* calculate_entry_points
InitEntry == InitOn(EntryFeed)

NextEntry ==
    \/ FetchOhlcv
    \/ CalculateEntryPoints

SpecEntry == InitEntry /\ [][NextEntry]_vars

\* repeated analyze() runs against an exchange that may be down
InitAnalyze == InitOn(AnalyzeFeed)

NextAnalyze ==
    \/ Analyze
    \/ ExchangeOutage

SpecAnalyze == InitAnalyze /\ [][NextAnalyze]_vars

-----------------------------------------------------------------------------
(* Claims about generate_signal                                            *)

SignalReturned == ret.op = "generate_signal" /\ ret.kind = "return"

\* the contribution of each scoring rule, by the reason it appends
Weight(reason) ==
    CASE reason = "RSI oversold" -> 20
      [] reason = "RSI overbought" -> -20
      [] reason = "MACD bullish crossover" -> 25
      [] reason = "MACD bearish crossover" -> -25
      [] reason = "Price below lower Bollinger Band" -> 15
      [] reason = "Price above upper Bollinger Band" -> -15
      [] reason = "Bullish divergence detected" -> 20
      [] reason = "Bearish divergence detected" -> -20

RECURSIVE SumWeights(_)
SumWeights(reasons) ==
    IF reasons = <<>> THEN 0 ELSE Weight(Head(reasons)) + SumWeights(Tail(reasons))

Reasons(signals) == {signals[i] : i \in 1..Len(signals)}

AllBuyReasons ==
    <<"RSI oversold", "MACD bullish crossover",
      "Price below lower Bollinger Band", "Bullish divergence detected">>

\* C1: the signed score generate_signal accumulates is the sum of the
\* contributions of the rules that fired (the reasons it appended), starting
\* from 0; the confidence it reports is the absolute value of that score; and
\* when the four buy rules all fire the confidence is 80 and the action is
\* STRONG BUY.
C1_ScoreIsSumOfFiredRules ==
    SignalReturned =>
        /\ ret.val.score = SumWeights(ret.val.signals)
        /\ ret.val.confidence = Abs(ret.val.score)
        /\ ret.val.signals = AllBuyReasons =>
              ret.val.confidence = 80 /\ ret.val.action = "STRONG BUY"

C1_Witness ==
    /\ SignalReturned
    /\ ret.val.signals = AllBuyReasons
    /\ ret.val.confidence = 80

\* C2: the action is STRONG BUY iff the score is above 40, BUY iff it is in
\* (20, 40], STRONG SELL iff it is below -40, SELL iff it is in [-40, -20),
\* HOLD iff it is in [-20, 20]; the reported confidence is in 0..100.
C2_ActionThresholds ==
    SignalReturned =>
        LET s == ret.val.score
            a == ret.val.action
        IN  /\ a = "STRONG BUY" <=> s > 40
            /\ a = "BUY" <=> (20 < s /\ s <= 40)
            /\ a = "STRONG SELL" <=> s < -40
            /\ a = "SELL" <=> (-40 <= s /\ s < -20)
            /\ a = "HOLD" <=> (-20 <= s /\ s <= 20)
            /\ ret.val.confidence \in 0..100

C2_Witness ==
    /\ SignalReturned
    /\ ret.val.score = 40
    /\ ret.val.action = "BUY"

\* C9: the MACD rule of generate_signal acts as the flat if/elif chain: the
\* bullish crossover fires iff MACD[last] > signal[last] and MACD[prev] <=
\* signal[prev]; otherwise the bearish crossover fires iff MACD[last] <
\* signal[last] and MACD[prev] >= signal[prev]; never both, and at most one
\* MACD reason is appended.
FlatBullish(d) ==
    FGt(d.macd[d.n], d.macd_signal[d.n]) /\ FLe(d.macd[d.n - 1], d.macd_signal[d.n - 1])

FlatBearish(d) ==
    /\ ~FlatBullish(d)
    /\ FLt(d.macd[d.n], d.macd_signal[d.n])
    /\ FGe(d.macd[d.n - 1], d.macd_signal[d.n - 1])

MacdReasons(signals) ==
    {i \in 1..Len(signals) :
        signals[i] \in {"MACD bullish crossover", "MACD bearish crossover"}}

C9_MacdRuleIsIfElifChain ==
    SignalReturned =>
        /\ "MACD bullish crossover" \in Reasons(ret.val.signals) <=> FlatBullish(data)
        /\ "MACD bearish crossover" \in Reasons(ret.val.signals) <=> FlatBearish(data)
        /\ Cardinality(MacdReasons(ret.val.signals)) <= 1

\* a bullish crossover out of equality at the previous row
C9_Witness ==
    /\ SignalReturned
    /\ "MACD bullish crossover" \in Reasons(ret.val.signals)
    /\ FEq(data.macd[data.n - 1], data.macd_signal[data.n - 1])

\* C5 (as claimed): on a series shorter than the 20-row Bollinger window, whose
\* bands are therefore undefined at every row, generate_signal completes and
\* returns a signal in which the Bollinger rule did not fire.
BollingerReasons ==
    {"Price below lower Bollinger Band", "Price above upper Bollinger Band"}

AllBandsUndefined(d) ==
    /\ "bb_lower" \in d.columns
    /\ \A i \in 1..d.n : d.bb_lower[i].k = "nan" /\ d.bb_upper[i].k = "nan"

C5_ShortSeriesSignalCompletes ==
    ( /\ ret.op = "generate_signal"
      /\ data.loaded
      /\ data.n \in 1..19
      /\ {"rsi", "macd"} \subseteq data.columns
      /\ AllBandsUndefined(data) )
    => /\ ret.kind = "return"
       /\ Reasons(ret.val.signals) \cap BollingerReasons = {}

-----------------------------------------------------------------------------
(* Claims about detect_divergence                                          *)

RsiUndefinedAtEnds(d) ==
    d.n >= 20 /\ (IsNaN(d.rsi[d.n]) \/ IsNaN(d.rsi[d.n - 19]))

\* C4 (as claimed): on a series of fewer than 21 candles, or with an undefined
\* RSI at the latest or the lookback row, detect_divergence completes without
\* raising and reports neither a bullish nor a bearish divergence.
C4_NoDivergenceWithoutRaising ==
    ( /\ ret.op = "detect_divergence"
      /\ data.loaded
      /\ "rsi" \in data.columns
      /\ (data.n < 21 \/ RsiUndefinedAtEnds(data)) )
    => /\ ret.kind = "return"
       /\ ~ret.val.bullish
       /\ ~ret.val.bearish

-----------------------------------------------------------------------------
(* Claims about calculate_rsi                                              *)

RsiReturned == ret.op = "calculate_rsi" /\ ret.kind = "return"

InRange(x) == IsNum(x) /\ FLe(Flt(0), x) /\ FLe(x, Flt(100))

\* C8 (as claimed): past the warm-up rows (pandas rows period and later) every
\* RSI value is a number within [0, 100], also for windows without a loss.
C8_RsiWithinRange ==
    RsiReturned =>
        \A i \in (ret.args[1] + 1)..data.n : InRange(data.rsi[i])

\* C10 (as claimed): the first period RSI entries (pandas rows 0..period-1)
\* are undefined.
C10_FirstPeriodEntriesUndefined ==
    RsiReturned =>
        \A i \in 1..data.n : i <= ret.args[1] => IsNaN(data.rsi[i])

-----------------------------------------------------------------------------
(* Claims about analyze                                                    *)

\* C3 (as claimed): an analyze() run whose candle fetch failed aborts: it
\* returns no result (no signal, entry plan, levels or volume profile), in
\* particular none computed from the candles an earlier run left in self.data.
C3_FailedFetchAborts ==
    (ret.op = "analyze" /\ ~fetched) => ret.kind = "raise"

-----------------------------------------------------------------------------
(* Claims about find_support_resistance                                    *)

LevelsReturned == ret.op = "find_support_resistance" /\ ret.kind = "return"

\* the lows that are the least of their window, and the highs that are the
\* greatest of theirs, for the rows that have a whole window around them
SupportCandidates(d, w) ==
    {d.low[j] : j \in {i \in (w + 1)..(d.n - w) :
                          \A k \in (i - w)..(i + w - 1) : d.low[i] <= d.low[k]}}

ResistanceCandidates(d, w) ==
    {d.high[j] : j \in {i \in (w + 1)..(d.n - w) :
                           \A k \in (i - w)..(i + w - 1) : d.high[i] >= d.high[k]}}

Least(a, b) == IF a < b THEN a ELSE b

\* levels lists, in strictly descending order, the (up to) 3 largest of cands
LargestThree(levels, cands) ==
    /\ Len(levels) = Least(3, Cardinality(cands))
    /\ \A i \in 1..Len(levels) : levels[i] \in cands
    /\ \A i \in 1..(Len(levels) - 1) : levels[i] > levels[i + 1]
    /\ \A c \in cands \ ToSet(levels) : \A i \in 1..Len(levels) : c < levels[i]

\* levels lists, in strictly ascending order, the (up to) 3 smallest of cands
SmallestThree(levels, cands) ==
    /\ Len(levels) = Least(3, Cardinality(cands))
    /\ \A i \in 1..Len(levels) : levels[i] \in cands
    /\ \A i \in 1..(Len(levels) - 1) : levels[i] < levels[i + 1]
    /\ \A c \in cands \ ToSet(levels) : \A i \in 1..Len(levels) : c > levels[i]

\* C6: find_support_resistance returns as support the (up to) 3 largest
\* distinct lows that equal the minimum of their window [i-w, i+w), in
\* strictly descending order, and as resistance the (up to) 3 smallest
\* distinct highs that equal the maximum of their window, in strictly
\* ascending order; both lists are empty when n <= 2w.
C6_LevelsAreExtremeCandidates ==
    LevelsReturned =>
        LET w == ret.args[1]
        IN  /\ LargestThree(ret.val.support, SupportCandidates(data, w))
            /\ SmallestThree(ret.val.resistance, ResistanceCandidates(data, w))
            /\ data.n <= 2 * w => ret.val.support = <<>> /\ ret.val.resistance = <<>>

\* more than three candidates of either kind: both lists are cut to three
C6_Witness ==
    /\ LevelsReturned
    /\ Cardinality(SupportCandidates(data, ret.args[1])) > 3
    /\ Cardinality(ResistanceCandidates(data, ret.args[1])) > 3
    /\ Len(ret.val.support) = 3
    /\ Len(ret.val.resistance) = 3

-----------------------------------------------------------------------------
(* Claims about calculate_entry_points                                     *)

\* a plan was returned for a table with the 14 rows the range proxy needs
EntryReturned ==
    ret.op = "calculate_entry_points" /\ ret.kind = "return" /\ data.n >= 14

\* 14 times the range proxy A = mean(high, 14) - mean(low, 14)
Range14(d) == SumInts(d.high, d.n - 13, d.n) - SumInts(d.low, d.n - 13, d.n)

\* r is the integer nearest to num / den (either neighbour on a tie)
Nearest(r, num, den) ==
    IsNum(r) /\ r.den = 1 /\ 2 * Abs(r.num * den - num) <= den

\* r is num / den exactly
Exactly(r, num, den) == IsNum(r) /\ r.num * den = num * r.den

Ordered(v) ==
    /\ FLe(v.stop_loss, v.entry_low)
    /\ FLe(v.entry_low, v.current_price)
    /\ FLe(v.current_price, v.entry_high)
    /\ FLe(v.entry_high, v.take_profit_1)
    /\ FLe(v.take_profit_1, v.take_profit_2)

\* C7 (as claimed): the plan holds entryLow = P - A/2, entryHigh = P + A/2,
\* stopLoss = P - 2A, takeProfit1 = P + 4A and takeProfit2 = P + 6A, and its
\* levels are in order.
C7_ExactLevels ==
    EntryReturned =>
        LET P == data.close[data.n]
            D == Range14(data)
        IN  /\ Exactly(ret.val.entry_low, 28 * P - D, 28)
            /\ Exactly(ret.val.entry_high, 28 * P + D, 28)
            /\ Exactly(ret.val.stop_loss, 7 * P - D, 7)
            /\ Exactly(ret.val.take_profit_1, 7 * P + 2 * D, 7)
            /\ Exactly(ret.val.take_profit_2, 7 * P + 3 * D, 7)
            /\ Ordered(ret.val)

\* C7 (amended): each level of the plan is the claimed value rounded to two
\* decimal places (the nearest hundredth), and the levels of the plan, the
\* reported current price among them, are in order.
C7_RoundedLevels ==
    EntryReturned =>
        LET P == data.close[data.n]
            D == Range14(data)
        IN  /\ Nearest(ret.val.current_price, P, 1)
            /\ Nearest(ret.val.entry_low, 28 * P - D, 28)
            /\ Nearest(ret.val.entry_high, 28 * P + D, 28)
            /\ Nearest(ret.val.stop_loss, 7 * P - D, 7)
            /\ Nearest(ret.val.take_profit_1, 7 * P + 2 * D, 7)
            /\ Nearest(ret.val.take_profit_2, 7 * P + 3 * D, 7)
            /\ Ordered(ret.val)

\* P = 100.00 and A = 10.00 give 95, 105, 80, 140 and 160
C7_Witness ==
    /\ EntryReturned
    /\ data.close[data.n] = 10000
    /\ Range14(data) = 14 * 1000
    /\ ret.val.entry_low = Flt(9500)
    /\ ret.val.entry_high = Flt(10500)
    /\ ret.val.stop_loss = Flt(8000)
    /\ ret.val.take_profit_1 = Flt(14000)
    /\ ret.val.take_profit_2 = Flt(16000)

====
